---- MODULE Spec2Model ----
(***************************************************************************)
(* A model of merge_pdfs (src/src/main.rs): N independently numbered       *)
(* object graphs are renumbered into one identifier space, their pages     *)
(* walked, one bookmark contributed per input, the Catalog / Pages roots   *)
(* consolidated, the pages re-parented, the composite compacted, the       *)
(* bookmarks materialised, and the composite saved.                        *)
(*                                                                         *)
(* Objects are [kind, dict] (a dictionary or a stream with its dictionary);*)
(* a dictionary is a function from key to value; a value is a tagged       *)
(* tuple: <<"ref", n>>, <<"name", s>>, <<"int", n>>, <<"arr", seq>>.       *)
(***************************************************************************)
EXTENDS Integers, Sequences, FiniteSets, TLC

\* ------------------------------------------------------------------ bounds
\* The largest number of input documents given on the command line.
MaxDocs == 2
\* The deepest page tree the walker descends into.
MaxTreeDepth == 3

\* ------------------------------------------------------------------ values
Ref(n) == <<"ref", n>>
Name(s) == <<"name", s>>
Integer(n) == <<"int", n>>
Arr(s) == <<"arr", s>>

IsRef(v) == v[1] = "ref"

Dict(d) == [kind |-> "dict", dict |-> d]
Stream(d) == [kind |-> "stream", dict |-> d]

\* Option<(ObjectId, Object)>: None, or the pair <<id, object>>.
None == <<>>

EmptyMap == [x \in {} |-> 0]

\* Dictionary::set
DSet(d, k, v) == [x \in (DOMAIN d) \cup {k} |-> IF x = k THEN v ELSE d[x]]

\* Dictionary::remove
DRemove(d, k) == [x \in (DOMAIN d) \ {k} |-> d[x]]

\* Dictionary::extend: every entry of other is written into d.
DExtend(d, other) ==
  [x \in (DOMAIN d) \cup (DOMAIN other) |-> IF x \in DOMAIN other THEN other[x] ELSE d[x]]

\* BTreeMap::insert
MInsert(m, id, o) == [x \in (DOMAIN m) \cup {id} |-> IF x = id THEN o ELSE m[x]]

\* BTreeMap::extend: the entries of other replace those of m with the same key.
MExtend(m, other) ==
  [x \in (DOMAIN m) \cup (DOMAIN other) |-> IF x \in DOMAIN other THEN other[x] ELSE m[x]]

\* Object::type_name: the Type name of a dictionary or stream, "" when absent.
type_name(o) ==
  IF "Type" \in DOMAIN o.dict /\ o.dict["Type"][1] = "name" THEN o.dict["Type"][2] ELSE ""

\* The keys of an ordered map in ascending order (BTreeMap iteration order).
RECURSIVE SortedSeq(_)
SortedSeq(S) ==
  IF S = {} THEN <<>>
  ELSE LET m == CHOOSE x \in S : \A y \in S : x <= y
       IN <<m>> \o SortedSeq(S \ {m})

\* Every reference held by a value, array elements included.
RECURSIVE RefsOfVal(_)
RefsOfVal(v) ==
  CASE v[1] = "ref" -> {v[2]}
    [] v[1] = "arr" -> UNION {RefsOfVal(v[2][i]) : i \in 1..Len(v[2])}
    [] OTHER -> {}

RefsOfDict(d) == UNION {RefsOfVal(d[k]) : k \in DOMAIN d}

\* ------------------------------------------------------- identifier space
\* The rewrite of one value under the replacement map: a reference whose
\* target is renumbered follows it, any other value is kept.
RECURSIVE RewriteVal(_, _)
RewriteVal(v, replace) ==
  CASE v[1] = "ref" -> IF v[2] \in DOMAIN replace THEN Ref(replace[v[2]]) ELSE v
    [] v[1] = "arr" -> Arr([i \in 1..Len(v[2]) |-> RewriteVal(v[2][i], replace)])
    [] OTHER -> v

RewriteDict(d, replace) == [k \in DOMAIN d |-> RewriteVal(d[k], replace)]

\* The replacement map of a renumbering: identifiers keep their relative
\* order and are numbered densely from starting_id.
Replace(ids, starting_id) ==
  [id \in ids |-> starting_id + Cardinality({x \in ids : x < id})]

\* Document::renumber_objects_with: identifiers, every reference (the
\* trailer's included) and the bookmarks' targets follow the replacement
\* map; max_id becomes the last identifier given out.
renumber_objects_with(doc, starting_id) ==
  LET replace == Replace(DOMAIN doc.objects, starting_id)
      newIds == {replace[id] : id \in DOMAIN doc.objects}
      old(n) == CHOOSE id \in DOMAIN doc.objects : replace[id] = n
  IN [objects |-> [n \in newIds |->
                     [kind |-> doc.objects[old(n)].kind,
                      dict |-> RewriteDict(doc.objects[old(n)].dict, replace)]],
      trailer |-> RewriteDict(doc.trailer, replace),
      bookmarks |-> [i \in 1..Len(doc.bookmarks) |->
                       [doc.bookmarks[i] EXCEPT !.page =
                          IF @ \in DOMAIN replace THEN replace[@] ELSE @]],
      max_id |-> starting_id + Cardinality(DOMAIN doc.objects) - 1]

\* Document::renumber_objects
renumber_objects(doc) == renumber_objects_with(doc, 1)

\* ---------------------------------------------------------- page walker
KidsOf(o) ==
  IF "Kids" \in DOMAIN o.dict /\ o.dict["Kids"][1] = "arr" THEN o.dict["Kids"][2] ELSE <<>>

\* The page nodes below a list of kids, left to right, descending into
\* intermediate Pages nodes.
RECURSIVE WalkKids(_, _, _)
WalkKids(objs, kids, depth) ==
  IF kids = <<>> \/ depth = 0 THEN <<>>
  ELSE LET k == Head(kids)
           here == IF IsRef(k) /\ k[2] \in DOMAIN objs
                   THEN CASE type_name(objs[k[2]]) = "Page" -> <<k[2]>>
                          [] type_name(objs[k[2]]) = "Pages" ->
                               WalkKids(objs, KidsOf(objs[k[2]]), depth - 1)
                          [] OTHER -> <<>>
                   ELSE <<>>
       IN here \o WalkKids(objs, Tail(kids), depth)

\* Document::get_pages: the pages reachable from the trailer's Root through
\* the Catalog's Pages entry, in page order (page number -> identifier).
get_pages(doc) ==
  IF "Root" \in DOMAIN doc.trailer /\ IsRef(doc.trailer["Root"])
     /\ doc.trailer["Root"][2] \in DOMAIN doc.objects
  THEN LET cat == doc.objects[doc.trailer["Root"][2]].dict
       IN IF "Pages" \in DOMAIN cat /\ IsRef(cat["Pages"]) /\ cat["Pages"][2] \in DOMAIN doc.objects
          THEN WalkKids(doc.objects, KidsOf(doc.objects[cat["Pages"][2]]), MaxTreeDepth)
          ELSE <<>>
  ELSE <<>>

\* ------------------------------------------------------------- the inputs
\* A loaded document: objects numbered 1..n, a trailer, max_id, no bookmarks.
Loaded(objs, trailer) ==
  [objects |-> objs, trailer |-> trailer, bookmarks |-> <<>>, max_id |-> Len(objs)]

\* A flat document: Catalog first, two pages in ascending identifier order.
DocFlat ==
  Loaded(<< Dict([Type |-> Name("Catalog"), Pages |-> Ref(2), Metadata |-> Ref(5)]),
            Dict([Type |-> Name("Pages"), Kids |-> Arr(<<Ref(3), Ref(4)>>),
                  Count |-> Integer(2), Rotate |-> Integer(0)]),
            Dict([Type |-> Name("Page"), Parent |-> Ref(2), Contents |-> Ref(5)]),
            Dict([Type |-> Name("Page"), Parent |-> Ref(2)]),
            Stream([Length |-> Integer(7)]) >>,
         [Root |-> Ref(1)])

\* A document with its own outline, numbered before its Catalog.
DocOutlined ==
  Loaded(<< Dict([Type |-> Name("Outlines"), First |-> Ref(2)]),
            Dict([Type |-> Name("Outline"), Parent |-> Ref(1), Dest |-> Arr(<<Ref(5)>>)]),
            Dict([Type |-> Name("Catalog"), Pages |-> Ref(4), Outlines |-> Ref(1),
                  Lang |-> Name("nl")]),
            Dict([Type |-> Name("Pages"), Kids |-> Arr(<<Ref(5), Ref(6)>>),
                  Count |-> Integer(2), Rotate |-> Integer(9), MediaBox |-> Integer(1)]),
            Dict([Type |-> Name("Page"), Parent |-> Ref(4)]),
            Dict([Type |-> Name("Page"), Parent |-> Ref(4)]) >>,
         [Root |-> Ref(3)])

\* A document whose second page has the lower identifier.
DocShuffled ==
  Loaded(<< Dict([Type |-> Name("Catalog"), Pages |-> Ref(2), Lang |-> Name("fr")]),
            Dict([Type |-> Name("Pages"), Kids |-> Arr(<<Ref(4), Ref(3)>>),
                  Count |-> Integer(2), CropBox |-> Integer(5)]),
            Dict([Type |-> Name("Page"), Parent |-> Ref(2)]),
            Dict([Type |-> Name("Page"), Parent |-> Ref(2)]) >>,
         [Root |-> Ref(1)])

\* A document with a nested page tree: an intermediate Pages node below the root.
DocNested ==
  Loaded(<< Dict([Type |-> Name("Pages"), Parent |-> Ref(3), Kids |-> Arr(<<Ref(4)>>),
                  Count |-> Integer(1)]),
            Dict([Type |-> Name("Catalog"), Pages |-> Ref(3)]),
            Dict([Type |-> Name("Pages"), Kids |-> Arr(<<Ref(1)>>), Count |-> Integer(1),
                  MediaBox |-> Integer(2)]),
            Dict([Type |-> Name("Page"), Parent |-> Ref(1)]) >>,
         [Root |-> Ref(2)])

\* A document with an empty page tree.
DocEmpty ==
  Loaded(<< Dict([Type |-> Name("Catalog"), Pages |-> Ref(2)]),
            Dict([Type |-> Name("Pages"), Kids |-> Arr(<<>>), Count |-> Integer(0)]) >>,
         [Root |-> Ref(1)])

\* A document with neither Catalog nor Pages.
DocBare ==
  Loaded(<< Dict([Producer |-> Name("x")]) >>, [Info |-> Ref(1)])

\* A document with a page tree and no Catalog.
DocNoCatalog ==
  Loaded(<< Dict([Type |-> Name("Pages"), Kids |-> Arr(<<Ref(2)>>), Count |-> Integer(1)]),
            Dict([Type |-> Name("Page"), Parent |-> Ref(1)]) >>,
         [Info |-> Ref(1)])

\* A document with a Catalog and no Pages object.
DocNoPages ==
  Loaded(<< Dict([Type |-> Name("Catalog"), Lang |-> Name("en")]),
            Dict([Title |-> Name("t")]) >>,
         [Root |-> Ref(1)])

Docs == {DocFlat, DocOutlined, DocShuffled, DocNested, DocEmpty, DocBare, DocNoCatalog, DocNoPages}

InputLists == UNION {[1..n -> Docs] : n \in 0..MaxDocs}


\* --------------------------------------------------------------- the state
VARIABLES
  pc,                \* the position in merge_pdfs
  documents,         \* the loaded input documents, in command-line order
  idx,               \* the next input document of the merge loop
  max_id,            \* the next free identifier number
  pagenum,           \* the number of the next bookmark label
  documents_pages,   \* BTreeMap<ObjectId, Object>: the collected pages
  documents_objects, \* BTreeMap<ObjectId, Object>: every input object
  document,          \* the composite document
  catalog_object,    \* Option<(ObjectId, Object)>
  pages_object,      \* Option<(ObjectId, Object)>
  walked,            \* per input document, the pages get_pages returned, in page order
  renumbered,        \* per input document, its objects after renumber_objects_with
  assembled,         \* the composite document as it stood before renumber_objects
  compaction,        \* the replacement map of the final renumber_objects
  outline,           \* what build_outline returned: None or <<id>>
  diag,              \* the diagnostic printed on an abort
  saved,             \* None, or <<graph>>: the document handed to save
  result             \* "running", "Ok" or "Err": what merge_pdfs returns

vars == <<pc, documents, idx, max_id, pagenum, documents_pages, documents_objects,
          document, catalog_object, pages_object, walked, renumbered, assembled, compaction,
          outline, diag, saved, result>>

\* Document::with_version
NewDocument == [objects |-> EmptyMap, trailer |-> EmptyMap, bookmarks |-> <<>>, max_id |-> 0]

Init ==
  /\ pc = "check_inputs"
  /\ documents \in InputLists
  /\ idx = 1
  /\ max_id = 1
  /\ pagenum = 1
  /\ documents_pages = EmptyMap
  /\ documents_objects = EmptyMap
  /\ document = NewDocument
  /\ catalog_object = None
  /\ pages_object = None
  /\ walked = <<>>
  /\ renumbered = <<>>
  /\ assembled = NewDocument
  /\ compaction = EmptyMap
  /\ outline = None
  /\ diag = ""
  /\ saved = None
  /\ result = "running"

\* ------------------------------------------------------------ operations
\* The input check: no input paths is an error returned to the caller.
CheckInputs ==
  /\ pc = "check_inputs"
  /\ IF Len(documents) = 0
     THEN pc' = "done" /\ result' = "Err"
     ELSE pc' = "loop" /\ result' = result
  /\ UNCHANGED <<documents, idx, max_id, pagenum, documents_pages, documents_objects,
                 document, catalog_object, pages_object, walked, renumbered, assembled, compaction,
                 outline, diag, saved>>

\* A bookmark labelled with the position of its document in the input list.
NewBookmarkByPosition(n, object_id) == [title |-> "Page_" \o ToString(idx), page |-> object_id]

\* Bookmark::new(format!("Page_{}", pagenum), [0.0, 0.0, 1.0], 0, object_id)
NewBookmark(n, object_id) == [title |-> "Page_" \o ToString(n), page |-> object_id]

\* max_id = doc.max_id + 1
NextMaxId(doc) == doc.max_id + 1

\* The bookmark's target taken at the last page of the walk.
LastPage(pgs) == pgs[Len(pgs)]

\* The page the `first` flag lets through: the first one the walk yields.
FirstPage(pgs) == pgs[1]

\* The map of one document's pages: (object_id, the page object), keyed by
\* object_id.
PageMap(doc, pgs) == [id \in {pgs[i] : i \in 1..Len(pgs)} |-> doc.objects[id]]

\* One iteration of the merge loop: renumber the document from max_id, walk
\* its pages, add one bookmark at its first page, and collect its pages and
\* its objects.
MergeDoc ==
  /\ pc = "loop"
  /\ idx <= Len(documents)
  /\ LET doc == renumber_objects_with(documents[idx], max_id)
         pgs == get_pages(doc)
     IN /\ max_id' = NextMaxId(doc)
        /\ IF Len(pgs) > 0
           THEN /\ document' = [document EXCEPT !.bookmarks =
                                  Append(@, NewBookmark(pagenum, FirstPage(pgs)))]
                /\ pagenum' = pagenum + 1
           ELSE UNCHANGED <<document, pagenum>>
        /\ documents_pages' = MExtend(documents_pages, PageMap(doc, pgs))
        /\ documents_objects' = MExtend(documents_objects, doc.objects)
        /\ walked' = Append(walked, pgs)
        /\ renumbered' = Append(renumbered, doc.objects)
  /\ idx' = idx + 1
  /\ UNCHANGED <<pc, documents, catalog_object, pages_object, assembled, compaction,
                 outline, diag, saved, result>>

\* A Catalog arm that keeps the first Catalog whole.
CatalogArmFirstWins(acc, object_id, object) ==
  IF acc.catalog_object # None THEN acc
  ELSE [acc EXCEPT !.catalog_object = <<object_id, object>>]

\* The Catalog arm: the identifier of the first Catalog, the object of this one.
CatalogArm(acc, object_id, object) ==
  [acc EXCEPT !.catalog_object =
     << IF acc.catalog_object # None THEN acc.catalog_object[1] ELSE object_id, object >>]

\* A Pages arm that extends the collected dictionary with this one.
PagesArmLaterWins(acc, object_id, object) ==
  IF object.kind = "dict"
  THEN LET dictionary ==
             IF acc.pages_object # None /\ acc.pages_object[2].kind = "dict"
             THEN DExtend(acc.pages_object[2].dict, object.dict)
             ELSE object.dict
       IN [acc EXCEPT !.pages_object =
             << IF acc.pages_object # None THEN acc.pages_object[1] ELSE object_id,
                Dict(dictionary) >>]
  ELSE acc

\* The Pages arm: the identifier of the first Pages; this dictionary extended
\* with the dictionary collected so far.
PagesArm(acc, object_id, object) ==
  IF object.kind = "dict"
  THEN LET dictionary ==
             IF acc.pages_object # None /\ acc.pages_object[2].kind = "dict"
             THEN DExtend(object.dict, acc.pages_object[2].dict)
             ELSE object.dict
       IN [acc EXCEPT !.pages_object =
             << IF acc.pages_object # None THEN acc.pages_object[1] ELSE object_id,
                Dict(dictionary) >>]
  ELSE acc

\* One step of the fold over documents_objects.
Classify(acc, object_id, object) ==
  CASE type_name(object) = "Catalog" -> CatalogArm(acc, object_id, object)
    [] type_name(object) = "Pages" -> PagesArm(acc, object_id, object)
    [] type_name(object) \in {"Page", "Outlines", "Outline"} -> acc
    [] OTHER -> [acc EXCEPT !.objects = MInsert(@, object_id, object)]

RECURSIVE Fold(_, _, _)
Fold(acc, ids, objs) ==
  IF ids = <<>> THEN acc
  ELSE Fold(Classify(acc, Head(ids), objs[Head(ids)]), Tail(ids), objs)

\* The fold over every collected object in ascending identifier order.
Consolidate ==
  /\ pc = "loop"
  /\ idx > Len(documents)
  /\ LET acc == Fold([catalog_object |-> None, pages_object |-> None,
                      objects |-> document.objects],
                     SortedSeq(DOMAIN documents_objects), documents_objects)
     IN /\ catalog_object' = acc.catalog_object
        /\ pages_object' = acc.pages_object
        /\ document' = [document EXCEPT !.objects = acc.objects]
  /\ pc' = "check_pages"
  /\ UNCHANGED <<documents, idx, max_id, pagenum, documents_pages, documents_objects,
                 walked, renumbered, assembled, compaction, outline, diag, saved, result>>

\* No Pages object: print, return Ok(()).
AbortNoPages ==
  /\ pc = "check_pages"
  /\ pages_object = None
  /\ diag' = "Pages root not found."
  /\ result' = "Ok"
  /\ pc' = "done"
  /\ UNCHANGED <<documents, idx, max_id, pagenum, documents_pages, documents_objects,
                 document, catalog_object, pages_object, walked, renumbered, assembled, compaction,
                 outline, saved>>

\* The page with its Parent set to the collected Pages identifier.
Reparented(object, parent) == Dict(DSet(object.dict, "Parent", Ref(parent)))

RECURSIVE ReparentAll(_, _, _, _)
ReparentAll(objs, ids, pages, parent) ==
  IF ids = <<>> THEN objs
  ELSE ReparentAll(IF pages[Head(ids)].kind = "dict"
                   THEN MInsert(objs, Head(ids), Reparented(pages[Head(ids)], parent))
                   ELSE objs,
                   Tail(ids), pages, parent)

\* Every collected page is inserted with its Parent set to the Pages root.
ReparentPages ==
  /\ pc = "check_pages"
  /\ pages_object # None
  /\ document' = [document EXCEPT !.objects =
                    ReparentAll(@, SortedSeq(DOMAIN documents_pages), documents_pages,
                                pages_object[1])]
  /\ pc' = "check_catalog"
  /\ UNCHANGED <<documents, idx, max_id, pagenum, documents_pages, documents_objects,
                 catalog_object, pages_object, walked, renumbered, assembled, compaction, outline,
                 diag, saved, result>>

\* A missing Catalog reported to the caller as an error.
AbortNoCatalogErr ==
  /\ pc = "check_catalog"
  /\ catalog_object = None
  /\ diag' = "Catalog root not found."
  /\ result' = "Err"
  /\ pc' = "done"
  /\ UNCHANGED <<documents, idx, max_id, pagenum, documents_pages, documents_objects,
                 document, catalog_object, pages_object, walked, renumbered, assembled,
                 compaction, outline, saved>>

\* No Catalog object: print, return Ok(()).
AbortNoCatalog ==
  /\ pc = "check_catalog"
  /\ catalog_object = None
  /\ diag' = "Catalog root not found."
  /\ result' = "Ok"
  /\ pc' = "done"
  /\ UNCHANGED <<documents, idx, max_id, pagenum, documents_pages, documents_objects,
                 document, catalog_object, pages_object, walked, renumbered, assembled, compaction,
                 outline, saved>>

\* The Kids list: the keys of documents_pages in the map's order.
KidsList(pages) ==
  LET ids == SortedSeq(DOMAIN pages) IN [i \in 1..Len(ids) |-> Ref(ids[i])]

\* A new Pages dictionary whose Count is left as collected.
NewPagesStaleCount(dictionary, pages) == DSet(dictionary, "Kids", Arr(KidsList(pages)))

\* The new Pages dictionary: Count and Kids set from documents_pages.
NewPages(dictionary, pages) ==
  DSet(DSet(dictionary, "Count", Integer(Cardinality(DOMAIN pages))),
       "Kids", Arr(KidsList(pages)))

BuildPages ==
  /\ pc = "check_catalog"
  /\ catalog_object # None
  /\ IF pages_object[2].kind = "dict"
     THEN document' = [document EXCEPT !.objects =
                         MInsert(@, pages_object[1],
                                 Dict(NewPages(pages_object[2].dict, documents_pages)))]
     ELSE document' = document
  /\ pc' = "build_catalog"
  /\ UNCHANGED <<documents, idx, max_id, pagenum, documents_pages, documents_objects,
                 catalog_object, pages_object, walked, renumbered, assembled, compaction, outline,
                 diag, saved, result>>

\* The new Catalog dictionary: Pages set, Outlines removed.
NewCatalog(dictionary, pages_id) == DRemove(DSet(dictionary, "Pages", Ref(pages_id)), "Outlines")

BuildCatalog ==
  /\ pc = "build_catalog"
  /\ IF catalog_object[2].kind = "dict"
     THEN document' = [document EXCEPT !.objects =
                         MInsert(@, catalog_object[1],
                                 Dict(NewCatalog(catalog_object[2].dict, pages_object[1])))]
     ELSE document' = document
  /\ pc' = "trailer"
  /\ UNCHANGED <<documents, idx, max_id, pagenum, documents_pages, documents_objects,
                 catalog_object, pages_object, walked, renumbered, assembled, compaction, outline,
                 diag, saved, result>>

\* trailer.Root = the Catalog identifier; max_id = the number of objects.
SetTrailer ==
  /\ pc = "trailer"
  /\ document' = [document EXCEPT !.trailer = DSet(@, "Root", Ref(catalog_object[1])),
                                  !.max_id = Cardinality(DOMAIN document.objects)]
  /\ pc' = "renumber"
  /\ UNCHANGED <<documents, idx, max_id, pagenum, documents_pages, documents_objects,
                 catalog_object, pages_object, walked, renumbered, assembled, compaction, outline,
                 diag, saved, result>>

\* The composite left as assembled.
CompactedSkipped(doc) == doc

\* The composite after document.renumber_objects().
Compacted(doc) == renumber_objects(doc)

Renumber ==
  /\ pc = "renumber"
  /\ document' = Compacted(document)
  /\ assembled' = document
  /\ compaction' = Replace(DOMAIN document.objects, 1)
  /\ pc' = "adjust"
  /\ UNCHANGED <<documents, idx, max_id, pagenum, documents_pages, documents_objects,
                 catalog_object, pages_object, walked, renumbered, outline, diag, saved,
                 result>>

\* Document::adjust_zero_pages: a bookmark without a page (page number 0)
\* takes the page of the bookmark after it, and is dropped when none follows.
RECURSIVE adjust_zero_pages(_)
adjust_zero_pages(bms) ==
  IF bms = <<>> THEN <<>>
  ELSE LET rest == adjust_zero_pages(Tail(bms))
       IN IF Head(bms).page # 0 THEN <<Head(bms)>> \o rest
          ELSE IF rest # <<>> THEN <<[Head(bms) EXCEPT !.page = rest[1].page]>> \o rest
          ELSE rest

AdjustZeroPages ==
  /\ pc = "adjust"
  /\ document' = [document EXCEPT !.bookmarks = adjust_zero_pages(@)]
  /\ pc' = "outline"
  /\ UNCHANGED <<documents, idx, max_id, pagenum, documents_pages, documents_objects,
                 catalog_object, pages_object, walked, renumbered, assembled, compaction, outline,
                 diag, saved, result>>

\* The Outline item of bookmark i of n, under the Outlines root parent.
OutlineItem(bm, i, n, parent) ==
  LET base == [Title |-> <<"str", bm.title>>, Parent |-> Ref(parent),
               Dest |-> Arr(<<Ref(bm.page), Name("Fit")>>)]
      withPrev == IF i > 1 THEN DSet(base, "Prev", Ref(parent + i - 1)) ELSE base
  IN Dict(IF i < n THEN DSet(withPrev, "Next", Ref(parent + i + 1)) ELSE withPrev)

\* Document::build_outline: None without bookmarks; otherwise a new Outlines
\* root at max_id + 1 and one Outline item per bookmark after it.
build_outline(doc) ==
  LET n == Len(doc.bookmarks)
      parent == doc.max_id + 1
      root == Dict([Type |-> Name("Outlines"), Count |-> Integer(n),
                    First |-> Ref(parent + 1), Last |-> Ref(parent + n)])
  IN IF n = 0 THEN [doc |-> doc, id |-> None]
     ELSE [doc |-> [doc EXCEPT
                      !.objects = [x \in (DOMAIN doc.objects) \cup (parent..(parent + n)) |->
                                     IF x = parent THEN root
                                     ELSE IF x > parent
                                          THEN OutlineItem(doc.bookmarks[x - parent],
                                                           x - parent, n, parent)
                                          ELSE doc.objects[x]],
                      !.max_id = parent + n],
           id |-> <<parent>>]

\* The identifier the Outlines entry is written to: catalog_object.0.
OutlinesHolder == catalog_object[1]

\* get_object_mut(id), then dict.set("Outlines", Reference(n)) when the
\* object there is a dictionary.
SetOutlines(objs, id, n) ==
  IF id \in DOMAIN objs /\ objs[id].kind = "dict"
  THEN [objs EXCEPT ![id] = Dict(DSet(objs[id].dict, "Outlines", Ref(n)))]
  ELSE objs

BuildOutline ==
  /\ pc = "outline"
  /\ LET b == build_outline(document)
     IN /\ outline' = b.id
        /\ document' = IF b.id # None
                       THEN [b.doc EXCEPT !.objects = SetOutlines(@, OutlinesHolder, b.id[1])]
                       ELSE b.doc
  /\ pc' = "save"
  /\ UNCHANGED <<documents, idx, max_id, pagenum, documents_pages, documents_objects,
                 catalog_object, pages_object, walked, renumbered, assembled, compaction,
                 diag, saved, result>>

\* document.compress(), then document.save(output): the write succeeds or
\* its error is returned.
Save ==
  /\ pc = "save"
  /\ \E ok \in BOOLEAN :
       IF ok THEN saved' = <<document>> /\ result' = "Ok"
       ELSE saved' = saved /\ result' = "Err"
  /\ pc' = "done"
  /\ UNCHANGED <<documents, idx, max_id, pagenum, documents_pages, documents_objects,
                 document, catalog_object, pages_object, walked, renumbered, assembled, compaction,
                 outline, diag>>

Next ==
  \/ CheckInputs
  \/ MergeDoc
  \/ Consolidate
  \/ AbortNoPages
  \/ ReparentPages
  \/ AbortNoCatalog
  \/ BuildPages
  \/ BuildCatalog
  \/ SetTrailer
  \/ Renumber
  \/ AdjustZeroPages
  \/ BuildOutline
  \/ Save

Spec == Init /\ [][Next]_vars

\* ------------------------------------------------- what the claims refer to
\* The pages of input document i in its own page order, as loaded.
PagesIn(i) == get_pages(documents[i])

\* The number of objects of the input documents before document i.
RECURSIVE SizeBefore(_)
SizeBefore(i) == IF i <= 1 THEN 0 ELSE SizeBefore(i - 1) + Len(documents[i - 1].objects)

\* The composite identifier of object id of input document i.
CompositeId(i, id) == SizeBefore(i) + id

\* The pages of documents 1..n: document 1's in its page order, then document 2's, ...
RECURSIVE PagesInOrder(_)
PagesInOrder(n) ==
  IF n = 0 THEN <<>>
  ELSE PagesInOrder(n - 1) \o [j \in 1..Len(PagesIn(n)) |-> CompositeId(n, PagesIn(n)[j])]

\* The input documents with at least one page, in input order.
RECURSIVE WithPages(_)
WithPages(n) ==
  IF n = 0 THEN <<>>
  ELSE WithPages(n - 1) \o (IF Len(PagesIn(n)) > 0 THEN <<n>> ELSE <<>>)

\* The composite identifiers of the input objects of a type, all documents.
TypedIds(t) == {id \in DOMAIN documents_objects : type_name(documents_objects[id]) = t}

NoPagesTyped ==
  \A i \in 1..Len(documents) : \A j \in 1..Len(documents[i].objects) :
     type_name(documents[i].objects[j]) # "Pages"

NoCatalogTyped ==
  \A i \in 1..Len(documents) : \A j \in 1..Len(documents[i].objects) :
     type_name(documents[i].objects[j]) # "Catalog"

Min(S) == CHOOSE x \in S : \A y \in S : x <= y
Max(S) == CHOOSE x \in S : \A y \in S : x >= y

\* The saved graph, its root node and its page-tree root.
Out == saved[1]
OutRootId == Out.trailer["Root"][2]
OutPagesId == Out.objects[OutRootId].dict["Pages"][2]
OutPages == Out.objects[OutPagesId].dict

\* The Outline items of the saved graph in sibling order: the chain from the
\* Outlines root's First along Next.
RECURSIVE Siblings(_, _)
Siblings(id, fuel) ==
  IF fuel = 0 \/ id \notin DOMAIN Out.objects THEN <<>>
  ELSE <<Out.objects[id].dict>> \o
       (IF "Next" \in DOMAIN Out.objects[id].dict
        THEN Siblings(Out.objects[id].dict["Next"][2], fuel - 1)
        ELSE <<>>)

OutItems ==
  IF outline = None THEN <<>>
  ELSE Siblings(Out.objects[outline[1]].dict["First"][2], Cardinality(DOMAIN Out.objects))

\* ------------------------------------------------------------------ claims
\* C1: whenever the merge reaches the save step, the consolidated Pages
\* object has Count = p1 + ... + pn, the pages of the input documents'
\* page trees, and its Kids array has exactly that many entries.
C1_PageCountConservation ==
  saved # None =>
    /\ OutPages["Count"] = Integer(Len(PagesInOrder(Len(documents))))
    /\ OutPages["Kids"][1] = "arr"
    /\ Len(OutPages["Kids"][2]) = Len(PagesInOrder(Len(documents)))

\* C1's case: two documents with pages were merged and saved.
C1_Witness ==
  /\ saved # None
  /\ Len(documents) = 2
  /\ Len(PagesIn(1)) = 2
  /\ Len(PagesIn(2)) = 1
  /\ OutPages["Count"] = Integer(3)

\* C2: the Kids array of the consolidated Pages object lists the pages of
\* document 1 in its own page order, then those of document 2, and so on.
C2_OrderPreserved ==
  saved # None =>
    OutPages["Kids"] =
      Arr([j \in 1..Len(PagesInOrder(Len(documents))) |->
             Ref(compaction[PagesInOrder(Len(documents))[j]])])

\* C3: in the graph handed to save, every reference of every object and of
\* the trailer targets an identifier present in the graph.
C3_ReferentialIntegrity ==
  saved # None =>
    /\ \A id \in DOMAIN Out.objects : RefsOfDict(Out.objects[id].dict) \subseteq DOMAIN Out.objects
    /\ RefsOfDict(Out.trailer) \subseteq DOMAIN Out.objects

\* C4: after the compaction step the identifier numbers are exactly
\* 1..object_count (and stay so when the outline objects are added), and
\* right after it every reference to an object of the composite, the
\* trailer's included, is the renumbered identifier of its target.
C4_DenseIdentifiers ==
  /\ pc \in {"adjust", "outline", "save"} \/ saved # None =>
       DOMAIN document.objects = 1..Cardinality(DOMAIN document.objects)
  /\ pc = "adjust" =>
       /\ Cardinality(DOMAIN document.objects) = Cardinality(DOMAIN assembled.objects)
       /\ \A x \in DOMAIN assembled.objects :
            /\ document.objects[compaction[x]].kind = assembled.objects[x].kind
            /\ DOMAIN document.objects[compaction[x]].dict = DOMAIN assembled.objects[x].dict
            /\ \A k \in DOMAIN assembled.objects[x].dict :
                 {compaction[y] : y \in RefsOfVal(assembled.objects[x].dict[k])
                                         \cap DOMAIN assembled.objects}
                   \subseteq RefsOfVal(document.objects[compaction[x]].dict[k])
       /\ document.trailer["Root"] = Ref(compaction[catalog_object[1]])

\* C4's case: a composite with gaps in its identifiers has been compacted.
C4_Witness ==
  /\ pc = "adjust"
  /\ DOMAIN assembled.objects # 1..Cardinality(DOMAIN assembled.objects)
  /\ \E x \in DOMAIN assembled.objects : compaction[x] # x

\* C5: with at least one input loaded, if no input holds a Pages-typed
\* object or no input holds a Catalog-typed object, the merge prints a
\* diagnostic, never reaches the save step, writes nothing, and returns Ok.
C5_AbortSafety ==
  (Len(documents) >= 1 /\ (NoPagesTyped \/ NoCatalogTyped)) =>
    /\ saved = None
    /\ pc \notin {"build_catalog", "trailer", "renumber", "adjust", "outline", "save"}
    /\ result # "Err"
    /\ pc = "done" => (result = "Ok" /\ diag \in {"Pages root not found.",
                                                  "Catalog root not found."})

\* C5's case: a merge whose inputs hold a Pages object and no Catalog has
\* ended.
C5_Witness ==
  /\ pc = "done"
  /\ NoCatalogTyped
  /\ ~NoPagesTyped
  /\ diag = "Catalog root not found."
  /\ result = "Ok"

\* C6: the saved graph holds one top-level Outline item per input document
\* with at least one page, in input order, and each item's destination is
\* the final identifier of the first page of its own document.
C6_BookmarkTargets ==
  saved # None =>
    LET docs == WithPages(Len(documents)) IN
    /\ (outline = None) <=> (docs = <<>>)
    /\ Len(OutItems) = Len(docs)
    /\ \A k \in 1..Len(docs) :
         /\ OutItems[k]["Parent"] = Ref(outline[1])
         /\ OutItems[k]["Dest"][2][1] =
              Ref(compaction[CompositeId(docs[k], PagesIn(docs[k])[1])])

\* C6's case: a zero-page document and a document whose first page has not
\* the lowest identifier of its pages were merged and saved.
C6_Witness ==
  /\ saved # None
  /\ Len(documents) = 2
  /\ Len(PagesIn(1)) = 0
  /\ Len(PagesIn(2)) = 2
  /\ PagesIn(2)[1] > PagesIn(2)[2]
  /\ Len(OutItems) = 1

\* The Catalog-typed and Pages-typed input objects, by composite identifier.
CatalogIds == TypedIds("Catalog")
PagesIds == TypedIds("Pages")

\* C7: the consolidated Catalog has the identifier of the first Catalog in
\* ascending composite-identifier order and the fields of the last one,
\* with Pages set to the consolidated Pages identifier and Outlines
\* removed; no other Catalog object is in the composite.
C7_CatalogPrecedence ==
  /\ (pc \notin {"check_inputs", "loop"} /\ CatalogIds # {}) =>
       catalog_object = <<Min(CatalogIds), documents_objects[Max(CatalogIds)]>>
  /\ pc \in {"trailer", "renumber"} =>
    LET last == documents_objects[Max(CatalogIds)].dict
        cat == document.objects[Min(CatalogIds)].dict
    IN /\ catalog_object[1] = Min(CatalogIds)
       /\ DOMAIN cat = ((DOMAIN last) \cup {"Pages"}) \ {"Outlines"}
       /\ cat["Pages"] = Ref(Min(PagesIds))
       /\ \A k \in (DOMAIN cat) \ {"Pages"} : cat[k] = last[k]
       /\ \A id \in DOMAIN document.objects :
            type_name(document.objects[id]) = "Catalog" => id = Min(CatalogIds)

\* C7's case: two Catalogs with different fields, the last with an Outlines
\* entry, were consolidated.
C7_Witness ==
  /\ pc = "trailer"
  /\ Cardinality(CatalogIds) = 2
  /\ "Outlines" \in DOMAIN documents_objects[Max(CatalogIds)].dict
  /\ "Lang" \in DOMAIN documents_objects[Max(CatalogIds)].dict
  /\ "Lang" \notin DOMAIN documents_objects[Min(CatalogIds)].dict

\* C8: the consolidated Pages object has the identifier of the first
\* Pages-typed object in ascending composite-identifier order; its keys are
\* those of all Pages-typed dictionaries, each with the value of the
\* earliest dictionary that holds it; Count and Kids are overwritten.
C8_PagesPrecedence ==
  /\ (pc \notin {"check_inputs", "loop"} /\ PagesIds # {}) =>
       /\ pages_object[1] = Min(PagesIds)
       /\ DOMAIN pages_object[2].dict =
            UNION {DOMAIN documents_objects[id].dict : id \in PagesIds}
       /\ \A k \in DOMAIN pages_object[2].dict :
            pages_object[2].dict[k] =
              documents_objects[Min({id \in PagesIds :
                                       k \in DOMAIN documents_objects[id].dict})].dict[k]
  /\ pc \in {"build_catalog", "trailer", "renumber"} =>
    LET merged == document.objects[Min(PagesIds)].dict
        holders(k) == {id \in PagesIds : k \in DOMAIN documents_objects[id].dict}
    IN /\ pages_object[1] = Min(PagesIds)
       /\ DOMAIN merged =
            UNION {DOMAIN documents_objects[id].dict : id \in PagesIds} \cup {"Count", "Kids"}
       /\ \A k \in (DOMAIN merged) \ {"Count", "Kids"} :
            merged[k] = documents_objects[Min(holders(k))].dict[k]
       /\ merged["Count"] = Integer(Cardinality(DOMAIN documents_pages))
       /\ merged["Kids"] = Arr(KidsList(documents_pages))

\* C8's case: two Pages dictionaries that hold the same key with different
\* values, and a key only the later one holds, were consolidated.
C8_Witness ==
  /\ pc = "build_catalog"
  /\ \E a, b \in PagesIds :
       /\ a < b
       /\ "Rotate" \in DOMAIN documents_objects[a].dict
       /\ "Rotate" \in DOMAIN documents_objects[b].dict
       /\ documents_objects[a].dict["Rotate"] # documents_objects[b].dict["Rotate"]
       /\ "MediaBox" \in DOMAIN documents_objects[b].dict
       /\ "MediaBox" \notin DOMAIN documents_objects[a].dict

\* C9 as first stated: the bookmark of the input document at position i of
\* the input list, zero-page documents counted, is labelled Page_i.
C9_LabelIsInputPosition ==
  LET docs == WithPages(idx - 1) IN
  /\ Len(document.bookmarks) = Len(docs)
  /\ \A k \in 1..Len(docs) :
       document.bookmarks[k].title = "Page_" \o ToString(docs[k])

\* C9: bookmarks are made in input order, one per merged input document
\* with at least one page; the k-th of them is labelled Page_k, k counting
\* from 1 (a zero-page document uses up no number), and no two bookmarks
\* share a label.
C9_LabelNumbering ==
  LET docs == WithPages(idx - 1) IN
  /\ Len(document.bookmarks) = Len(docs)
  /\ pagenum = Len(docs) + 1
  /\ \A k \in 1..Len(docs) : document.bookmarks[k].title = "Page_" \o ToString(k)
  /\ \A j, k \in 1..Len(docs) :
       j # k => document.bookmarks[j].title # document.bookmarks[k].title

\* C9's case: a zero-page document came before a document with pages, whose
\* bookmark, at its first page, is labelled Page_1.
C9_Witness ==
  /\ pc = "loop"
  /\ idx = 3
  /\ Len(PagesIn(1)) = 0
  /\ Len(PagesIn(2)) > 0
  /\ document.bookmarks = <<[title |-> "Page_1",
                             page |-> CompositeId(2, PagesIn(2)[1])]>>

\* C10: when bookmarks exist and the merge reaches the save step, the root
\* node of the saved graph, the object the trailer's Root resolves to,
\* holds Outlines = the new Outlines root, and no other object has been
\* given an Outlines entry or had its own changed by that step.
C10_OutlinesOnRoot ==
  (saved # None /\ outline # None) =>
    /\ "Outlines" \in DOMAIN Out.objects[OutRootId].dict
    /\ Out.objects[OutRootId].dict["Outlines"] = Ref(outline[1])
    /\ \A id \in (DOMAIN Out.objects) \ {OutRootId} :
         IF id < outline[1]
         THEN Out.objects[id] = Compacted(assembled).objects[id]
         ELSE "Outlines" \notin DOMAIN Out.objects[id].dict
====
